---------------------------- MODULE Spec2Model ----------------------------
(***************************************************************************)
(* A model of the logicdsl finite-domain solver: the expression algebra    *)
(* of core.py, the installation operations and the backtracking search of  *)
(* solver.py (LogicSolver), and the call surface of z3solver.py            *)
(* (Z3Solver).                                                             *)
(*                                                                         *)
(* Python values are represented as follows.                               *)
(*   - None / a value      : the sequences <<>> / <<value>>                *)
(*   - a dict              : a function whose DOMAIN is the set of keys    *)
(*   - a Var object        : an identity in VarObjs; its name is NameOf    *)
(*   - an Expr / BoolExpr  : a record tree; field vars is the node's _vars *)
(*   - a raised KeyError   : the result "KeyError" of satisfied, and a     *)
(*                           record with ok = FALSE of eval                *)
(***************************************************************************)
EXTENDS Integers, Sequences, FiniteSets, TLC

\* ───────────────────────────── Var objects (core.py, class Var)
\* Four Var objects; the third carries the same name as the first, and
\* the fourth meets no solver.
VarObjs == {1, 2, 3, 4}

NameOf(v) == IF v = 2 THEN "y" ELSE IF v = 4 THEN "z" ELSE "x"

\* Position of a name in sorted(..., key=lambda v: v.name).
NameRank(n) == IF n = "x" THEN 1 ELSE IF n = "y" THEN 2 ELSE 3

\* Var.domain when it was never bound (None).
NoDomain == [set |-> FALSE, vals |-> <<>>]

\* Var.domain after << or in_range: a list of values.
Dom(vals) == [set |-> TRUE, vals |-> vals]

\* ───────────────────────────── arithmetic expressions (core.py, class Expr)
Lit(n) == [k |-> "lit", n |-> n, vars |-> {}]

VarExpr(v) == [k |-> "var", v |-> v, vars |-> {v}]

Bin(op, l, r) == [k |-> "bin", op |-> op, l |-> l, r |-> r, vars |-> l.vars \cup r.vars]

Neg(s) == [k |-> "neg", s |-> s, vars |-> s.vars]

Cmp(op, l, r) ==
  [k |-> "cmp", op |-> op, l |-> l, r |-> r, name |-> "<anon>", vars |-> l.vars \cup r.vars]

\* ───────────────────────────── boolean expressions (core.py, class BoolExpr)
And(s, t) == [k |-> "and", l |-> s, r |-> t, name |-> "<anon>", vars |-> s.vars \cup t.vars]

Or(s, t) == [k |-> "or", l |-> s, r |-> t, name |-> "<anon>", vars |-> s.vars \cup t.vars]

Not(s) == [k |-> "not", s |-> s, name |-> "<anon>", vars |-> s.vars]

Xor(s, t) == [k |-> "xor", l |-> s, r |-> t, name |-> "<anon>", vars |-> s.vars \cup t.vars]

Implies(s, t) == [k |-> "imp", l |-> s, r |-> t, name |-> "<anon>", vars |-> s.vars \cup t.vars]

named(b, name) == [b EXCEPT !.name = name]

\* BoolExpr(lambda a: True, "true") and BoolExpr(lambda a: False, "false").
ConstBool(b) == [k |-> "const", b |-> b, name |-> IF b THEN "true" ELSE "false", vars |-> {}]

\* ───────────────────────────── combinators (constraints.py)
RECURSIVE FoldAndFrom(_, _, _)
FoldAndFrom(out, xs, i) ==
  IF i > Len(xs) THEN out ELSE FoldAndFrom(And(out, xs[i]), xs, i + 1)

fold_and(xs) == IF xs = <<>> THEN ConstBool(TRUE) ELSE FoldAndFrom(xs[1], xs, 2)

RECURSIVE FoldOrFrom(_, _, _)
FoldOrFrom(out, xs, i) ==
  IF i > Len(xs) THEN out ELSE FoldOrFrom(Or(out, xs[i]), xs, i + 1)

fold_or(xs) == IF xs = <<>> THEN ConstBool(FALSE) ELSE FoldOrFrom(xs[1], xs, 2)

\* distinct(vs): the BoolExpr is built without a vars argument.
distinct(vs) == [k |-> "distinct", vs |-> vs, name |-> "distinct", vars |-> {}]

\* _to_bool(x) where it does not raise.
to_bool(x) == IF x.k = "var" THEN Cmp("==", x, Lit(1)) ELSE x

\* [_to_bool(x) for x in xs]
to_bools(xs) == [i \in 1..Len(xs) |-> to_bool(xs[i])]

at_least_one(xs) == fold_or(to_bools(xs))

\* [~(p & q) for i, p in enumerate(xs_b) for q in xs_b[i + 1:]]
RECURSIVE PairClauses(_)
PairClauses(xs_b) ==
  IF Len(xs_b) < 2 THEN <<>>
  ELSE [j \in 1..(Len(xs_b) - 1) |-> Not(And(xs_b[1], xs_b[j + 1]))] \o PairClauses(Tail(xs_b))

\* Neighbours only.
at_most_one_neighbours(xs) ==
  LET xs_b == to_bools(xs)
  IN  fold_and([j \in 1..(Len(xs_b) - 1) |-> Not(And(xs_b[j], xs_b[j + 1]))])

at_most_one(xs) == fold_and(PairClauses(to_bools(xs)))

exactly_one(xs) ==
  LET xs_b == to_bools(xs)
  IN  And(at_least_one(xs_b), at_most_one(xs_b))

\* total = total + Expr._E(x) (op "+") or prod = prod * Expr._E(x) (op "*").
RECURSIVE FoldBinFrom(_, _, _, _)
FoldBinFrom(op, out, xs, i) ==
  IF i > Len(xs) THEN out ELSE FoldBinFrom(op, Bin(op, out, xs[i]), xs, i + 1)

sum_of(xs) == IF xs = <<>> THEN Lit(0) ELSE FoldBinFrom("+", xs[1], xs, 2)

product_of(xs) == IF xs = <<>> THEN Lit(1) ELSE FoldBinFrom("*", xs[1], xs, 2)

\* ───────────────────────────── evaluation
KeyError == [ok |-> FALSE, v |-> 0]

Value(n) == [ok |-> TRUE, v |-> n]

ArithOp(op, x, y) ==
  CASE op = "+" -> x + y
    [] op = "-" -> x - y
    [] op = "*" -> x * y

RelOp(op, x, y) ==
  CASE op = "==" -> x = y
    [] op = "!=" -> x # y
    [] op = "<" -> x < y
    [] op = "<=" -> x <= y
    [] op = ">" -> x > y
    [] op = ">=" -> x >= y

\* Expr.eval(a): a number, or KeyError when a lacks a name the walk reads.
RECURSIVE eval(_, _)
eval(e, a) ==
  CASE e.k = "lit" -> Value(e.n)
    [] e.k = "var" -> IF NameOf(e.v) \in DOMAIN a THEN Value(a[NameOf(e.v)]) ELSE KeyError
    [] e.k = "neg" -> LET x == eval(e.s, a) IN IF x.ok THEN Value(0 - x.v) ELSE KeyError
    [] e.k = "bin" ->
         LET x == eval(e.l, a)
         IN  IF ~x.ok THEN KeyError
             ELSE LET y == eval(e.r, a)
                  IN  IF ~y.ok THEN KeyError ELSE Value(ArithOp(e.op, x.v, y.v))

PyBool(b) == IF b THEN "True" ELSE "False"

\* Neighbours in the list differ.
all_different_neighbours(vs, a) ==
  \A i \in 1..(Len(vs) - 1) : a[NameOf(vs[i])] # a[NameOf(vs[i + 1])]

\* len({a[v.name] for v in _vs}) == len(_vs), the lambda of distinct.
all_different(vs, a) == Cardinality({a[NameOf(vs[i])] : i \in 1..Len(vs)}) = Len(vs)

\* BoolExpr.satisfied(a): "True", "False", or "KeyError" when the walk reads
\* a name a lacks.  and / or short-circuit as Python's do.
RECURSIVE satisfied(_, _)
satisfied(b, a) ==
  CASE b.k = "const" -> PyBool(b.b)
    [] b.k = "cmp" ->
         LET x == eval(b.l, a)
         IN  IF ~x.ok THEN "KeyError"
             ELSE LET y == eval(b.r, a)
                  IN  IF ~y.ok THEN "KeyError" ELSE PyBool(RelOp(b.op, x.v, y.v))
    [] b.k = "and" ->
         LET s == satisfied(b.l, a)
         IN  IF s = "True" THEN satisfied(b.r, a) ELSE s
    [] b.k = "or" ->
         LET s == satisfied(b.l, a)
         IN  IF s = "False" THEN satisfied(b.r, a) ELSE s
    [] b.k = "not" ->
         LET s == satisfied(b.s, a)
         IN  IF s = "KeyError" THEN s ELSE PyBool(s = "False")
    [] b.k = "xor" ->
         LET s == satisfied(b.l, a)
         IN  IF s = "KeyError" THEN s
             ELSE LET t == satisfied(b.r, a)
                  IN  IF t = "KeyError" THEN t ELSE PyBool(s # t)
    [] b.k = "imp" ->
         LET s == satisfied(b.l, a)
         IN  IF s = "KeyError" THEN s
             ELSE IF s = "False" THEN "True" ELSE satisfied(b.r, a)
    [] b.k = "distinct" ->
         IF \E i \in 1..Len(b.vs) : NameOf(b.vs[i]) \notin DOMAIN a THEN "KeyError"
         ELSE PyBool(all_different(b.vs, a))


\* ───────────────────────────── bounds and input pools
\* At most this many require / prefer / maximize / minimize calls succeed
\* in a session of one search call (Spec).
MaxInstalls == 2

\* The same, in a session of several search calls (SpecSeq).
MaxInstallsSeq == 1

\* At most this many solve / all_solutions calls are made in a session of
\* several calls (SpecSeq).
MaxCalls == 3

\* The largest limit passed to all_solutions.
MaxLimit == 2

X == VarExpr(1)

Y == VarExpr(2)

\* (bexp, name) arguments of require; name "" stands for an omitted name.
HardPool ==
  { [bexp |-> Cmp("==", X, Lit(1)), name |-> "x_one"],
    [bexp |-> Cmp(">=", X, Lit(1)), name |-> "x_pos"],
    [bexp |-> Cmp("==", Bin("+", X, Y), Lit(1)), name |-> ""],
    [bexp |-> at_least_one(<<>>), name |-> ""],
    [bexp |-> distinct(<<1, 2>>), name |-> "all_diff"] }

\* (bexp, penalty, weight, name) arguments of prefer.
SoftPool ==
  { [bexp |-> Cmp("==", X, Lit(1)), penalty |-> 1, weight |-> 2, name |-> "x_one"],
    [bexp |-> Cmp("==", Y, Lit(1)), penalty |-> 2, weight |-> 1, name |-> ""],
    [bexp |-> distinct(<<1, 2>>), penalty |-> 1, weight |-> 1, name |-> ""],
    [bexp |-> Cmp("!=", X, Lit(1)), penalty |-> 2, weight |-> 3, name |-> "x_not_one"] }

\* (expr, weight) arguments of maximize.
MaxPool ==
  { [expr |-> X, weight |-> 1],
    [expr |-> Y, weight |-> 2] }

\* (expr, weight) arguments of minimize.
MinPool == { [expr |-> X, weight |-> 3] }

\* Arguments of add_variables.
AddPool == { <<2, 1>>, <<3>>, <<1, 3>> }

\* Domains the Var objects are bound to before they meet a solver.
DomainWorlds ==
  { <<Dom(<<0, 1>>), Dom(<<0, 1>>), Dom(<<1>>)>>,
    <<Dom(<<1, 1>>), Dom(<<>>), NoDomain>> }

\* timeout arguments of solve: omitted, zero, positive.
Timeouts == { <<>>, <<0>>, <<1>> }

\* (limit, timeout) arguments of all_solutions: either omitted or given.
AllArgs ==
  { <<l, <<>>>> : l \in { <<>> } \cup { <<k>> : k \in 0..MaxLimit } }
    \cup { << <<>>, t >> : t \in { <<-1>>, <<0>>, <<1>> } }
    \cup { << <<1>>, <<1>> >> }

\* timeout arguments of Z3Solver.all_solutions: the non-positive ones,
\* which return before the z3 engine is built.
Z3Timeouts == { <<0>>, <<-1>> }

\* timeout arguments of Z3Solver.solve: omitted, or non-positive.
Z3SolveTimeouts == { <<>> } \cup Z3Timeouts

\* limit arguments of Z3Solver.all_solutions.
Z3Limits == { <<>>, <<1>> }

\* Readings of time.monotonic() - start.
Elapsed == {0, 1}

\* ───────────────────────────── state
VARIABLES
  install_budget,   \* the number of require / prefer / maximize / minimize calls the session may make succeed
  backend,          \* the class of the solver object: "LogicSolver" or "Z3Solver"
  domain,           \* Var.domain of each Var object
  vars,             \* LogicSolver.vars: list of Var objects
  hard,             \* LogicSolver.hard: list of (name, bexp)
  soft,             \* LogicSolver.soft: list of Soft
  objectives,       \* LogicSolver.objectives: list of (expr, sense, weight)
  objective_mode,   \* "lex" or "sum"
  best_score,       \* LogicSolver._best_score
  best_assignment,  \* LogicSolver._best_assignment
  failed,           \* LogicSolver._failed_constraints
  pc,               \* "idle", or the position of the running search
  call,             \* the running or most recent call: "none", "solve", "all"
  limit,            \* its limit argument
  timeout,          \* its timeout argument
  stack,            \* one entry per active _bt frame inside its for loop: the index of val in v.domain
  assignment,       \* the dict threaded through _bt
  solutions,        \* the list threaded through _bt by all_solutions
  ret,              \* what the most recent API call returned or raised
  visited,          \* history: the partial assignments _consistent was called on, this call
  leaves,           \* history: the number of leaves handled, this call
  history,          \* history: the calls completed since the last install: what a solve returned or raised, a mark for an all_solutions
  calls_left,       \* the number of solve / all_solutions calls the session still makes
  probe,            \* a cardinality constraint built and evaluated apart from any solver: its arguments, its result
  tagset            \* a TagSet on the solver: TagSet._vars as a list, and the k the session gives enforce_at_most

config == <<install_budget, backend, domain, vars, hard, soft, objectives, objective_mode, probe, tagset>>

vars_all ==
  <<install_budget, backend, domain, vars, hard, soft, objectives, objective_mode, best_score, best_assignment,
    failed, pc, call, limit, timeout, stack, assignment, solutions, ret, visited, leaves,
    history, calls_left, probe, tagset>>

EmptyDict == [n \in {} |-> 0]

\* a[n] = val
Put(a, n, val) == [m \in DOMAIN a \cup {n} |-> IF m = n THEN val ELSE a[m]]

\* A pop that removes nothing.
Pop_removes_nothing(a, n) == a

\* a.pop(n, None)
Pop(a, n) == [m \in DOMAIN a \ {n} |-> a[m]]

Returned(kind, value) == [kind |-> kind, value |-> value]

NothingYet == Returned("none", <<>>)

\* The mark an all_solutions call leaves in the history of calls.
AllSolutionsCall == Returned("all_solutions", <<>>)

\* No TagSet was built.
NoTagSet == [vars |-> <<>>, k |-> 0]

\* No cardinality constraint was built.
NoProbe == [fn |-> "none", xs |-> <<>>, k |-> 0, a |-> EmptyDict, out |-> "none", val |-> 0]

\* LogicSolver.__init__, with the Var objects bound beforehand.
InitSolver ==
  /\ backend \in {"LogicSolver", "Z3Solver"}
  /\ vars = <<>>
  /\ hard = <<>>
  /\ soft = <<>>
  /\ objectives = <<>>
  /\ objective_mode \in {"lex", "sum"}
  /\ best_score = <<>>
  /\ best_assignment = <<>>
  /\ failed = {}
  /\ pc = "idle"
  /\ call = "none"
  /\ limit = <<>>
  /\ timeout = <<>>
  /\ stack = <<>>
  /\ assignment = EmptyDict
  /\ solutions = <<>>
  /\ ret = NothingYet
  /\ visited = {}
  /\ leaves = 0
  /\ history = <<>>

\* Sessions of one search call, over every world.
Init ==
  /\ InitSolver
  /\ domain \in DomainWorlds
  /\ install_budget = MaxInstalls
  /\ calls_left = 1
  /\ probe = NoProbe
  /\ tagset = NoTagSet

\* Sessions of up to MaxCalls search calls, over the first world.
InitSeq ==
  /\ InitSolver
  /\ domain = <<Dom(<<0, 1>>), Dom(<<0, 1>>), Dom(<<1>>)>>
  /\ install_budget = MaxInstallsSeq
  /\ calls_left = MaxCalls
  /\ probe = NoProbe
  /\ tagset = NoTagSet

\* ───────────────────────────── installation (solver.py, LogicSolver API)
\* sorted(vars_set, key=lambda v: v.name) as a sequence.
collect_vars(expr) ==
  LET S == expr.vars
  IN  CHOOSE s \in [1..Cardinality(S) -> S] :
        /\ \A i, j \in DOMAIN s : i < j => NameRank(NameOf(s[i])) < NameRank(NameOf(s[j]))

Names(vs) == {NameOf(vs[i]) : i \in 1..Len(vs)}

\* The loop shared by _ensure_vars and add_variables over the list vs: the
\* list of registered variables it leaves, and whether it raised.
\* Registration without the name test.
RECURSIVE RegisterFrom_no_name_test(_, _, _)
RegisterFrom_no_name_test(reg, vs, i) ==
  IF i > Len(vs) THEN [vars |-> reg, raised |-> FALSE]
  ELSE IF ~domain[vs[i]].set THEN [vars |-> reg, raised |-> TRUE]
  ELSE RegisterFrom_no_name_test(Append(reg, vs[i]), vs, i + 1)

RECURSIVE RegisterFrom(_, _, _)
RegisterFrom(reg, vs, i) ==
  IF i > Len(vs) THEN [vars |-> reg, raised |-> FALSE]
  ELSE IF ~domain[vs[i]].set THEN [vars |-> reg, raised |-> TRUE]
  ELSE IF NameOf(vs[i]) \notin Names(reg) THEN RegisterFrom(Append(reg, vs[i]), vs, i + 1)
  ELSE RegisterFrom(reg, vs, i + 1)

ensure_vars(expr) == RegisterFrom(vars, collect_vars(expr), 1)

NameOr(name, dflt) == IF name = "" THEN dflt ELSE name

Installed == Len(hard) + Len(soft) + Len(objectives)

Raised(r) == IF r.raised THEN Returned("ValueError", <<>>) ELSE NothingYet

\* What an installation leaves alone; the record of the last search call
\* (its arguments, its list, its history) is dropped.
InstallFrame ==
  /\ call' = "none"
  /\ limit' = <<>>
  /\ timeout' = <<>>
  /\ solutions' = <<>>
  /\ visited' = {}
  /\ leaves' = 0
  /\ history' = <<>>
  /\ UNCHANGED <<install_budget, backend, domain, objective_mode, probe, tagset, best_score, best_assignment, failed, pc, stack,
                 assignment, calls_left>>

add_variables(vs) ==
  /\ pc = "idle"
  /\ LET r == RegisterFrom(vars, vs, 1)
     IN  /\ vars' = r.vars
         /\ ret' = Raised(r)
  /\ InstallFrame
  /\ UNCHANGED <<hard, soft, objectives>>

require(bexp, name) ==
  /\ pc = "idle"
  /\ Installed < install_budget
  /\ LET r == ensure_vars(bexp)
     IN  /\ vars' = r.vars
         /\ hard' = IF r.raised THEN hard
                    ELSE Append(hard, [name |-> NameOr(name, bexp.name), bexp |-> bexp])
         /\ ret' = Raised(r)
  /\ InstallFrame
  /\ UNCHANGED <<soft, objectives>>

\* Soft.__init__
Soft(bexp, penalty, weight, name) ==
  [bexp |-> bexp, penalty |-> penalty, weight |-> weight, name |-> NameOr(name, bexp.name)]

prefer(bexp, penalty, weight, name) ==
  /\ pc = "idle"
  /\ Installed < install_budget
  /\ LET r == ensure_vars(bexp)
     IN  /\ vars' = r.vars
         /\ soft' = IF r.raised THEN soft ELSE Append(soft, Soft(bexp, penalty, weight, name))
         /\ ret' = Raised(r)
  /\ InstallFrame
  /\ UNCHANGED <<hard, objectives>>

\* maximize (sense 1) and minimize (sense -1) differ in the sense only.
AddObjective(expr, sense, weight) ==
  /\ pc = "idle"
  /\ Installed < install_budget
  /\ LET r == ensure_vars(expr)
     IN  /\ vars' = r.vars
         /\ objectives' = IF r.raised THEN objectives
                          ELSE Append(objectives, [expr |-> expr, sense |-> sense, weight |-> weight])
         /\ ret' = Raised(r)
  /\ InstallFrame
  /\ UNCHANGED <<hard, soft>>

maximize(expr, weight) == AddObjective(expr, 1, weight)

minimize(expr, weight) == AddObjective(expr, -1, weight)

\* ───────────────────────────── scoring (solver.py, Soft and LogicSolver._score)
RECURSIVE SumSeq(_)
SumSeq(s) == IF s = <<>> THEN 0 ELSE Head(s) + SumSeq(Tail(s))

\* Soft.cost(a)
cost(s, a) ==
  LET r == satisfied(s.bexp, a)
  IN  IF r = "KeyError" THEN KeyError ELSE Value(IF r = "True" THEN 0 ELSE s.penalty)

\* _score with the soft cost of sum mode taken without the weights.
score_unweighted(a) ==
  LET costs == [i \in 1..Len(soft) |-> cost(soft[i], a)]
      vals == [i \in 1..Len(objectives) |-> eval(objectives[i].expr, a)]
      penalty == SumSeq([i \in 1..Len(soft) |-> costs[i].v])
  IN  IF (\E i \in 1..Len(soft) : ~costs[i].ok) \/ (\E i \in 1..Len(objectives) : ~vals[i].ok)
      THEN [ok |-> FALSE, penalty |-> 0, score |-> 0]
      ELSE IF objective_mode = "sum"
      THEN [ok |-> TRUE, penalty |-> penalty,
            score |-> SumSeq([i \in 1..Len(objectives) |->
                        objectives[i].weight * objectives[i].sense * vals[i].v]) - penalty]
      ELSE [ok |-> TRUE, penalty |-> penalty,
            score |-> [i \in 1..Len(objectives) |-> objectives[i].sense * vals[i].v]]

\* _score(a): (penalty, objective score), or KeyError out of an evaluation.
score(a) ==
  LET costs == [i \in 1..Len(soft) |-> cost(soft[i], a)]
      vals == [i \in 1..Len(objectives) |-> eval(objectives[i].expr, a)]
      penalty == SumSeq([i \in 1..Len(soft) |-> costs[i].v])
      soft_cost == SumSeq([i \in 1..Len(soft) |-> soft[i].weight * costs[i].v])
  IN  IF (\E i \in 1..Len(soft) : ~costs[i].ok) \/ (\E i \in 1..Len(objectives) : ~vals[i].ok)
      THEN [ok |-> FALSE, penalty |-> 0, score |-> 0]
      ELSE IF objective_mode = "sum"
      THEN [ok |-> TRUE, penalty |-> penalty,
            score |-> SumSeq([i \in 1..Len(objectives) |->
                        objectives[i].weight * objectives[i].sense * vals[i].v]) - soft_cost]
      ELSE [ok |-> TRUE, penalty |-> penalty,
            score |-> [i \in 1..Len(objectives) |-> objectives[i].sense * vals[i].v]]

\* The list comparison with the last element deciding first.
RECURSIVE ListGreater_last_first(_, _)
ListGreater_last_first(a, b) ==
  IF a = <<>> \/ b = <<>> THEN FALSE
  ELSE IF a[Len(a)] # b[Len(b)] THEN a[Len(a)] > b[Len(b)]
  ELSE ListGreater_last_first(SubSeq(a, 1, Len(a) - 1), SubSeq(b, 1, Len(b) - 1))

\* Python's list comparison a > b.
RECURSIVE ListGreater(_, _)
ListGreater(a, b) ==
  IF a = <<>> THEN FALSE
  ELSE IF b = <<>> THEN TRUE
  ELSE IF Head(a) # Head(b) THEN Head(a) > Head(b)
  ELSE ListGreater(Tail(a), Tail(b))

\* The comparison new[1] > best[1] of the two score shapes.
ScoreGreater(new, best) ==
  IF objective_mode = "sum" THEN new > best ELSE ListGreater(new, best)

\* _better with the two comparisons in the other order: score first.
better_score_first(new, best) ==
  IF best = <<>> THEN TRUE
  ELSE IF new.score # best[1].score THEN ScoreGreater(new.score, best[1].score)
  ELSE new.penalty < best[1].penalty

\* _better replacing the stored best on an equal score as well.
better_or_equal(new, best) ==
  IF best = <<>> THEN TRUE
  ELSE IF new.penalty # best[1].penalty THEN new.penalty < best[1].penalty
  ELSE new.score = best[1].score \/ ScoreGreater(new.score, best[1].score)

\* _better(new, best); best is <<>> for None.
better(new, best) ==
  IF best = <<>> THEN TRUE
  ELSE IF new.penalty # best[1].penalty THEN new.penalty < best[1].penalty
  ELSE ScoreGreater(new.score, best[1].score)

\* The dict solve returns and the entry all_solutions appends.
Entry(a, sc) ==
  IF objective_mode = "sum"
  THEN [assignment |-> a, penalty |-> sc.penalty, objective |-> sc.score]
  ELSE [assignment |-> a, penalty |-> sc.penalty, objectives |-> sc.score]

\* ───────────────────────────── consistency (solver.py, LogicSolver._consistent)
\* The loop from the i-th hard constraint on: whether partial passes, and
\* the names the loop adds to _failed_constraints.
RECURSIVE ConsistentFrom(_, _)
ConsistentFrom(partial, i) ==
  IF i > Len(hard) THEN [ok |-> TRUE, failed |-> {}]
  ELSE IF satisfied(hard[i].bexp, partial) = "False"
  THEN [ok |-> FALSE, failed |-> {hard[i].name}]
  ELSE ConsistentFrom(partial, i + 1)

\* _consistent without the early return: every false constraint is named.
consistent_all(partial) ==
  LET F == {i \in 1..Len(hard) : satisfied(hard[i].bexp, partial) = "False"}
  IN  [ok |-> F = {}, failed |-> {hard[i].name : i \in F}]

\* _consistent rejecting on a false soft constraint as well.
consistent_with_soft(partial) ==
  IF \E i \in 1..Len(soft) : satisfied(soft[i].bexp, partial) = "False"
  THEN [ok |-> FALSE, failed |-> {}]
  ELSE ConsistentFrom(partial, 1)

consistent(partial) == ConsistentFrom(partial, 1)

\* ───────────────────────────── search (solver.py, LogicSolver._bt)
\* idx of the node being entered, or of the frame a call returns into.
idx == Len(stack)

\* The limit test with > for >=.
LimitReached_late == call = "all" /\ limit # <<>> /\ Len(solutions) > limit[1]

\* len(solutions) >= limit, for a call that passes both.
LimitReached == call = "all" /\ limit # <<>> /\ Len(solutions) >= limit[1]

\* The call ends: its frames are gone, ret is what the caller gets.
Finish(r) ==
  /\ pc' = "idle"
  /\ stack' = <<>>
  /\ assignment' = EmptyDict
  /\ ret' = r
  /\ history' = Append(history, IF call = "solve" THEN r ELSE AllSolutionsCall)

\* The time check of a solve that hands back the stored best, if any.
BtTimeout_keeps_best ==
  /\ pc = "enter"
  /\ timeout # <<>>
  /\ \E now \in Elapsed : now >= timeout[1]
  /\ Finish(IF call = "all" THEN Returned("solutions", solutions)
            ELSE IF best_assignment = <<>> THEN Returned("TimeoutError", <<>>)
            ELSE Returned("solution", <<Entry(best_assignment[1], best_score[1])>>))
  /\ UNCHANGED <<config, calls_left, best_score, best_assignment, failed, call, limit, timeout,
                 solutions, visited, leaves>>

\* Line 137 finds the time exceeded: TimeoutError leaves every frame;
\* solve lets it through, all_solutions catches it and returns the list.
BtTimeout ==
  /\ pc = "enter"
  /\ timeout # <<>>
  /\ \E now \in Elapsed : now >= timeout[1]
  /\ Finish(IF call = "solve" THEN Returned("TimeoutError", <<>>)
            ELSE Returned("solutions", solutions))
  /\ UNCHANGED <<config, calls_left, best_score, best_assignment, failed, call, limit, timeout,
                 solutions, visited, leaves>>

\* Entry to a node past the time check: the limit check, the leaf, or the
\* start of the for loop.
BtEnter ==
  /\ pc = "enter"
  /\ timeout # <<>> => \E now \in Elapsed : ~(now >= timeout[1])
  /\ IF LimitReached
     THEN /\ pc' = "return"
          /\ UNCHANGED <<stack, assignment, solutions, best_score, best_assignment, ret,
                         leaves, history>>
     ELSE IF idx = Len(vars)
     THEN LET sc == score(assignment)
          IN  /\ leaves' = leaves + 1
              /\ IF ~sc.ok
                 THEN /\ Finish(Returned("KeyError", <<>>))
                      /\ UNCHANGED <<solutions, best_score, best_assignment>>
                 ELSE IF call = "all"
                 THEN /\ solutions' = Append(solutions, Entry(assignment, sc))
                      /\ pc' = "return"
                      /\ UNCHANGED <<stack, assignment, best_score, best_assignment, ret,
                                     history>>
                 ELSE /\ IF better(sc, best_score)
                         THEN /\ best_score' = <<[penalty |-> sc.penalty, score |-> sc.score]>>
                              /\ best_assignment' = <<assignment>>
                         ELSE UNCHANGED <<best_score, best_assignment>>
                      /\ pc' = "return"
                      /\ UNCHANGED <<stack, assignment, solutions, ret, history>>
     ELSE /\ stack' = Append(stack, 1)
          /\ pc' = "loop"
          /\ UNCHANGED <<assignment, solutions, best_score, best_assignment, ret, leaves,
                         history>>
  /\ UNCHANGED <<config, calls_left, failed, call, limit, timeout, visited>>

\* One turn of the for loop of the innermost frame (lines 165-167), or its
\* end (line 172).
BtLoop ==
  /\ pc = "loop"
  /\ LET v == vars[idx]
         dom == domain[v].vals
         i == stack[idx]
     IN  IF i <= Len(dom)
         THEN LET a == Put(assignment, NameOf(v), dom[i])
                  c == consistent(a)
              IN  /\ assignment' = a
                  /\ visited' = visited \cup {a}
                  /\ failed' = failed \cup c.failed
                  /\ IF c.ok
                     THEN pc' = "enter" /\ stack' = stack
                     ELSE pc' = "loop" /\ stack' = [stack EXCEPT ![idx] = i + 1]
         ELSE /\ assignment' = Pop(assignment, NameOf(v))
              /\ stack' = SubSeq(stack, 1, idx - 1)
              /\ pc' = "return"
              /\ UNCHANGED <<visited, failed>>
  /\ UNCHANGED <<config, calls_left, best_score, best_assignment, call, limit, timeout, solutions, ret,
                 leaves, history>>

\* A recursive call came back into the for loop (lines 169-171).
BtReturn ==
  /\ pc = "return"
  /\ stack # <<>>
  /\ IF LimitReached
     THEN /\ assignment' = Pop(assignment, NameOf(vars[idx]))
          /\ stack' = SubSeq(stack, 1, idx - 1)
          /\ pc' = "return"
     ELSE /\ stack' = [stack EXCEPT ![idx] = stack[idx] + 1]
          /\ pc' = "loop"
          /\ UNCHANGED assignment
  /\ UNCHANGED <<config, calls_left, best_score, best_assignment, failed, call, limit, timeout, solutions,
                 ret, visited, leaves, history>>

\* ───────────────────────────── solve and all_solutions (solver.py)
Start(c, l, t) ==
  /\ backend = "LogicSolver"
  /\ pc = "idle"
  /\ calls_left > 0
  /\ calls_left' = calls_left - 1
  /\ pc' = "enter"
  /\ call' = c
  /\ limit' = l
  /\ timeout' = t
  /\ stack' = <<>>
  /\ assignment' = EmptyDict
  /\ solutions' = <<>>
  /\ ret' = Returned("running", <<>>)
  /\ visited' = {}
  /\ leaves' = 0

\* solve without the reset of the best slot.
solve_keeps_best(t) ==
  /\ Start("solve", <<>>, t)
  /\ failed' = {}
  /\ UNCHANGED <<config, best_score, best_assignment, history>>

\* solve, lines 176-179: the resets and the call of _bt.
solve(t) ==
  /\ Start("solve", <<>>, t)
  /\ best_score' = <<>>
  /\ best_assignment' = <<>>
  /\ failed' = {}
  /\ UNCHANGED <<config, history>>

\* solve, lines 180-191: _bt came back.
solve_return ==
  /\ pc = "return"
  /\ stack = <<>>
  /\ call = "solve"
  /\ Finish(IF best_assignment = <<>> THEN Returned("RuntimeError", <<>>)
            ELSE Returned("solution", <<Entry(best_assignment[1], best_score[1])>>))
  /\ UNCHANGED <<config, calls_left, best_score, best_assignment, failed, call, limit, timeout, solutions,
                 visited, leaves>>

\* all_solutions, lines 195-198.
all_solutions(l, t) ==
  /\ Start("all", l, t)
  /\ UNCHANGED <<config, best_score, best_assignment, failed, history>>

\* all_solutions, line 201: _bt came back.
all_solutions_return ==
  /\ pc = "return"
  /\ stack = <<>>
  /\ call = "all"
  /\ Finish(Returned("solutions", solutions))
  /\ UNCHANGED <<config, calls_left, best_score, best_assignment, failed, call, limit, timeout, solutions,
                 visited, leaves>>

\* ───────────────────────────── Z3Solver.solve and all_solutions (z3solver.py)
\* The names Expr.eval(env) reads.
RECURSIVE Reads(_)
Reads(e) ==
  CASE e.k = "lit" -> {}
    [] e.k = "var" -> {NameOf(e.v)}
    [] e.k = "neg" -> Reads(e.s)
    [] e.k = "bin" -> Reads(e.l) \cup Reads(e.r)

\* The names bexp.satisfied(env) reads before any z3 value is tested for
\* truth: all of them, for a comparison, a distinct and a constant.
BoolReads(b) ==
  CASE b.k = "const" -> {}
    [] b.k = "cmp" -> Reads(b.l) \cup Reads(b.r)
    [] b.k = "distinct" -> Names(b.vs)

\* _build_penalty_expr(env) raises KeyError: env has the registered names
\* (_make_z3_vars), and some soft constraint reads another name.
PenaltyExprRaises ==
  \E i \in 1..Len(soft) : ~(BoolReads(soft[i].bexp) \subseteq Names(vars))

\* A Z3Solver call, from the call to its return.
Z3Call(c, l, t, r) ==
  /\ backend = "Z3Solver"
  /\ pc = "idle"
  /\ calls_left > 0
  /\ calls_left' = calls_left - 1
  /\ call' = c
  /\ limit' = l
  /\ timeout' = t
  /\ ret' = r
  /\ history' = Append(history, IF c = "solve" THEN r ELSE AllSolutionsCall)
  /\ solutions' = <<>>
  /\ visited' = {}
  /\ leaves' = 0
  /\ UNCHANGED <<config, pc, stack, assignment, best_score, best_assignment>>

\* The values of v.domain, as _domain_constraints offers them to z3.
DomainValues(v) == {domain[v].vals[i] : i \in 1..Len(domain[v].vals)}

\* The models of the domain constraints: one value per registered name.
Z3Space ==
  {a \in [Names(vars) -> UNION {DomainValues(vars[i]) : i \in 1..Len(vars)}] :
     \A i \in 1..Len(vars) : a[NameOf(vars[i])] \in DomainValues(vars[i])}

\* The truth under the model a of the z3 term bexp.satisfied(env) builds.
\* A comparison is the z3 comparison of its operands; distinct compares the
\* size of a Python set of the symbols with len(vs), a constant, the
\* symbols of different names being different values.
Z3Sat(b, a) ==
  CASE b.k = "const" -> b.b
    [] b.k = "cmp" -> RelOp(b.op, eval(b.l, a).v, eval(b.r, a).v)
    [] b.k = "distinct" -> Cardinality(Names(b.vs)) = Len(b.vs)

\* bexp.satisfied(env) raises KeyError for some hard constraint (line 137).
HardExprRaises ==
  \E i \in 1..Len(hard) : ~(BoolReads(hard[i].bexp) \subseteq Names(vars))

\* The models of the domain constraints and the hard constraints in C.
Z3Models(C) == {a \in Z3Space : \A i \in C : Z3Sat(hard[i].bexp, a)}

\* The value of _build_penalty_expr under the model a.
Z3Penalty(a) ==
  SumSeq([i \in 1..Len(soft) |-> IF Z3Sat(soft[i].bexp, a) THEN 0 ELSE soft[i].penalty])

\* The value of _build_objective_expr under the model a.
Z3Objective(a) ==
  SumSeq([i \in 1..Len(objectives) |->
            objectives[i].weight * objectives[i].sense * eval(objectives[i].expr, a).v])
  - SumSeq([i \in 1..Len(soft) |->
            soft[i].weight * (IF Z3Sat(soft[i].bexp, a) THEN 0 ELSE soft[i].penalty)])

\* The models of S that are best for the objectives from the i-th on, each
\* maximised (sense 1) or minimised (sense -1) in turn.
RECURSIVE Z3LexBest(_, _)
Z3LexBest(S, i) ==
  IF i > Len(objectives) THEN S
  ELSE LET val(a) == objectives[i].sense * eval(objectives[i].expr, a).v
       IN  Z3LexBest({a \in S : \A b \in S : val(b) <= val(a)}, i + 1)

\* The models opt.check() may leave in opt.model(): the penalty is
\* minimised first, then the objective expression (sum) or the objectives
\* in list order (lex).
Z3Best ==
  LET F == Z3Models(1..Len(hard))
      P == {a \in F : \A b \in F : Z3Penalty(a) <= Z3Penalty(b)}
  IN  IF objective_mode = "sum"
      THEN {a \in P : \A b \in P : Z3Objective(b) <= Z3Objective(a)}
      ELSE Z3LexBest(P, 1)

\* The dict solve builds from the model a (lines 157-172): the objective
\* keys only with objectives, the lex values without the sense.
Z3Entry(a) ==
  IF objectives = <<>> THEN [assignment |-> a, penalty |-> Z3Penalty(a)]
  ELSE IF objective_mode = "sum"
  THEN [assignment |-> a, penalty |-> Z3Penalty(a), objective |-> Z3Objective(a)]
  ELSE [assignment |-> a, penalty |-> Z3Penalty(a),
        objectives |-> [i \in 1..Len(objectives) |-> eval(objectives[i].expr, a).v]]

\* What _collect_failed_constraints may return on an unsatisfiable
\* problem: the names of some unsatisfiable set of hard constraints.
Z3Cores == {{hard[i].name : i \in C} : C \in {D \in SUBSET (1..Len(hard)) : Z3Models(D) = {}}}

\* What solve(t) may return or raise, with the failed set it leaves.
Z3SolveOutcomes(t) ==
  IF PenaltyExprRaises THEN {[ret |-> Returned("KeyError", <<>>), failed |-> {}]}
  ELSE IF t # <<>> THEN {[ret |-> Returned("TimeoutError", <<>>), failed |-> {}]}
  ELSE IF HardExprRaises THEN {[ret |-> Returned("KeyError", <<>>), failed |-> {}]}
  ELSE IF Z3Best = {}
  THEN {[ret |-> Returned("RuntimeError", <<>>), failed |-> F] : F \in Z3Cores}
  ELSE {[ret |-> Returned("solution", <<Z3Entry(a)>>), failed |-> {}] : a \in Z3Best}

\* Z3Solver.solve, for a timeout omitted or <= 0.
z3_solve(t) ==
  /\ backend = "Z3Solver"
  /\ pc = "idle"
  /\ calls_left > 0
  /\ IF t = <<>> THEN TRUE ELSE t[1] <= 0
  /\ \E o \in Z3SolveOutcomes(t) :
       /\ Z3Call("solve", <<>>, t, o.ret)
       /\ failed' = o.failed

\* all_solutions, lines 175-176, for timeout <= 0.
z3_all_solutions(l, t) ==
  /\ t[1] <= 0
  /\ Z3Call("all", l, t, Returned("solutions", <<>>))
  /\ UNCHANGED failed

\* ───────────────────────────── the program
Next ==
  \/ \E vs \in AddPool : add_variables(vs)
  \/ \E h \in HardPool : require(h.bexp, h.name)
  \/ \E s \in SoftPool : prefer(s.bexp, s.penalty, s.weight, s.name)
  \/ \E o \in MaxPool : maximize(o.expr, o.weight)
  \/ \E o \in MinPool : minimize(o.expr, o.weight)
  \/ \E t \in Timeouts : solve(t)
  \/ \E c \in AllArgs : all_solutions(c[1], c[2])
  \/ \E t \in Z3SolveTimeouts : z3_solve(t)
  \/ \E l \in Z3Limits, t \in Z3Timeouts : z3_all_solutions(l, t)
  \/ BtTimeout
  \/ BtEnter
  \/ BtLoop
  \/ BtReturn
  \/ solve_return
  \/ all_solutions_return

Spec == Init /\ [][Next]_vars_all

SpecSeq == InitSeq /\ [][Next]_vars_all

\* ───────────────────────────── binding domains (core.py, class Var)
\* list(range(lo, hi)).
RangeList(lo, hi) == [i \in 1..(hi - lo) |-> lo + i - 1]

\* list(s) of the Python set s written with the elements e: its elements,
\* each once, in the order the set iterates, which the language leaves open.
SetLists(e) ==
  LET S == {e[i] : i \in 1..Len(e)}
  IN  {s \in [1..Cardinality(S) -> S] : \A i, j \in 1..Cardinality(S) : s[i] = s[j] => i = j}

\* Right operands of Var << spec: a (lo, hi) tuple, a list, a set, a range.
LshiftPool ==
  { [k |-> "tuple", v |-> <<0, 1>>],
    [k |-> "list", v |-> <<1, 1>>],
    [k |-> "set", v |-> <<0, 1, 0>>],
    [k |-> "range", v |-> <<0, 2>>] }

\* Arguments of Var.in_range: (lo, hi), or (lo, hi, step).
InRangePool == { <<0, 1>>, <<0, 1, 1>>, <<0, 2, 2>> }

\* The Var objects rebound after construction.
BindVars == {1}

\* The lists __lshift__ may store in self.domain for spec.
lshift_domains(spec) ==
  CASE spec.k = "tuple" -> {RangeList(spec.v[1], spec.v[2] + 1)}
    [] spec.k = "list" -> {spec.v}
    [] spec.k = "set" -> SetLists(spec.v)
    [] spec.k = "range" -> {RangeList(spec.v[1], spec.v[2])}

\* A binding call on Var object v that stores d, or raises r; the solver
\* holding v is not told. The record of the last search call is dropped.
Bind(v, d, r) ==
  /\ pc = "idle"
  /\ domain' = IF r = NothingYet THEN [domain EXCEPT ![v] = Dom(d)] ELSE domain
  /\ ret' = r
  /\ call' = "none"
  /\ limit' = <<>>
  /\ timeout' = <<>>
  /\ solutions' = <<>>
  /\ visited' = {}
  /\ leaves' = 0
  /\ history' = <<>>
  /\ UNCHANGED <<install_budget, backend, vars, hard, soft, objectives, objective_mode, probe, tagset,
                 best_score, best_assignment, failed, pc, stack, assignment, calls_left>>

\* Var.__lshift__
lshift(v, spec) == \E d \in lshift_domains(spec) : Bind(v, d, NothingYet)

\* Var.in_range(lo, hi), which takes no third argument.
in_range(v, args) ==
  IF Len(args) = 2
  THEN Bind(v, RangeList(args[1], args[2] + 1), NothingYet)
  ELSE Bind(v, <<>>, Returned("TypeError", <<>>))

\* Sessions in which Var objects are rebound between the calls on the solver.
InitBind ==
  /\ InitSolver
  /\ domain = <<Dom(<<0, 1>>), Dom(<<0, 1>>), Dom(<<1>>)>>
  /\ install_budget = MaxInstallsSeq
  /\ calls_left = 1
  /\ probe = NoProbe
  /\ tagset = NoTagSet

NextBind ==
  \/ Next
  \/ \E v \in BindVars, spec \in LshiftPool : lshift(v, spec)
  \/ \E v \in BindVars, args \in InRangePool : in_range(v, args)

SpecBind == InitBind /\ [][NextBind]_vars_all

\* ───────────────────────────── cardinality constraints (constraints.py)
\* _to_bool accepts x: a BoolExpr, or a Var whose domain is [0, 1].
IsBool(x) == x.k = "var" => domain[x.v] = Dom(<<0, 1>>)

\* [~x for x in xs_b]
inverted(xs) == [i \in 1..Len(xs) |-> Not(xs[i])]

\* list(itertools.combinations(xs, k)) for k >= 0.
RECURSIVE combinations(_, _)
combinations(xs, k) ==
  IF k = 0 THEN << <<>> >>
  ELSE IF Len(xs) < k THEN <<>>
  ELSE LET with == combinations(Tail(xs), k - 1)
       IN  [i \in 1..Len(with) |-> <<Head(xs)>> \o with[i]] \o combinations(Tail(xs), k)

\* At least one of xs, whatever k.
at_least_k_ignores_k(xs, k) == fold_or(to_bools(xs))

at_least_k(xs, k) ==
  LET xs_b == to_bools(xs)
  IN  IF k <= 0 THEN fold_and(<<>>)
      ELSE IF k > Len(xs_b) THEN fold_or(<<>>)
      ELSE LET combos == combinations(xs_b, k)
           IN  fold_or([i \in 1..Len(combos) |-> fold_and(combos[i])])

\* The first half of the conjunction only.
exactly_k_lower_half(xs, k) == at_least_k(xs, k)

exactly_k(xs, k) ==
  LET xs_b == to_bools(xs)
      n == Len(xs_b)
  IN  IF k < 0 \/ k > n THEN fold_or(<<>>)
      ELSE IF k = 0 THEN fold_and(inverted(xs_b))
      ELSE IF k = n THEN fold_and(xs_b)
      ELSE And(at_least_k(xs_b, k), at_least_k(inverted(xs_b), n - k))

\* The longest list given to a cardinality constraint.
MaxXs == 3

\* The elements of the lists: the 0/1 variables x and y, the variable of
\* object 3 whose domain is [1], and the constant true.
XsElements == { VarExpr(1), VarExpr(2), VarExpr(3), ConstBool(TRUE) }

XsPool == UNION { [1..n -> XsElements] : n \in 0..MaxXs }

\* The k arguments: below 0, 0..n, above every n.
KPool == (0 - 1)..(MaxXs + 1)

\* The complete assignments of x and y.
ProbeAssignments == [{"x", "y"} -> {0, 1}]

\* The operands of sum_of and product_of: variables and numbers.
NumElements == { VarExpr(1), VarExpr(2), Lit(2) }

NumPool == UNION { [1..n -> NumElements] : n \in 0..MaxXs }

\* The lists of Var objects given to distinct, as their expressions.
VsPool == UNION { [1..n -> {VarExpr(1), VarExpr(2), VarExpr(4)}] : n \in 0..MaxXs }

\* The assignments of x, y and z given to distinct.
DistinctAssignments == [{"x", "y", "z"} -> 0..2]

\* The Var objects of a list of their expressions.
Objects(xs) == [i \in 1..Len(xs) |-> xs[i].v]

\* The BoolExpr the probe builds, for the functions that build one.
ProbeBool(p) ==
  CASE p.fn = "at_least_k" -> at_least_k(p.xs, p.k)
    [] p.fn = "exactly_k" -> exactly_k(p.xs, p.k)
    [] p.fn = "at_least_one" -> at_least_one(p.xs)
    [] p.fn = "at_most_one" -> at_most_one(p.xs)
    [] p.fn = "exactly_one" -> exactly_one(p.xs)
    [] p.fn = "distinct" -> distinct(Objects(p.xs))

\* The Expr the probe builds, for sum_of and product_of.
ProbeExpr(p) == IF p.fn = "sum_of" THEN sum_of(p.xs) ELSE product_of(p.xs)

\* fn(xs, k).satisfied(a) or fn(xs).eval(a), or the TypeError _to_bool raises.
evaluate(fn) ==
  /\ probe.fn = fn
  /\ probe.out = "none"
  /\ probe' =
       IF fn \in {"sum_of", "product_of"}
       THEN LET r == eval(ProbeExpr(probe), probe.a)
            IN  IF r.ok THEN [probe EXCEPT !.out = "Value", !.val = r.v]
                ELSE [probe EXCEPT !.out = "KeyError"]
       ELSE IF fn # "distinct" /\ \E i \in 1..Len(probe.xs) : ~IsBool(probe.xs[i])
       THEN [probe EXCEPT !.out = "TypeError"]
       ELSE [probe EXCEPT !.out = satisfied(ProbeBool(probe), probe.a)]
  /\ UNCHANGED <<install_budget, backend, domain, vars, hard, soft, objectives, objective_mode,
                 best_score, best_assignment, failed, pc, call, limit, timeout, stack,
                 assignment, solutions, ret, visited, leaves, history, calls_left, tagset>>

\* Constraints built from drawn arguments, with no solver call at all.
InitEval ==
  /\ InitSolver
  /\ domain = <<Dom(<<0, 1>>), Dom(<<0, 1>>), Dom(<<1>>), Dom(<<0, 1, 2>>)>>
  /\ install_budget = 0
  /\ calls_left = 0
  /\ tagset = NoTagSet
  /\ probe \in
       [fn : {"at_least_k", "exactly_k"}, xs : XsPool, k : KPool,
        a : ProbeAssignments, out : {"none"}, val : {0}]
       \cup [fn : {"at_least_one", "at_most_one", "exactly_one"}, xs : XsPool, k : {0},
             a : ProbeAssignments, out : {"none"}, val : {0}]
       \cup [fn : {"sum_of", "product_of"}, xs : NumPool, k : {0},
             a : ProbeAssignments, out : {"none"}, val : {0}]
       \cup [fn : {"distinct"}, xs : VsPool, k : {0},
             a : DistinctAssignments, out : {"none"}, val : {0}]

NextEval ==
  \/ evaluate("at_least_k")
  \/ evaluate("exactly_k")
  \/ evaluate("at_least_one")
  \/ evaluate("at_most_one")
  \/ evaluate("exactly_one")
  \/ evaluate("sum_of")
  \/ evaluate("product_of")
  \/ evaluate("distinct")

SpecEval == InitEval /\ [][NextEval]_vars_all

\* ───────────────────────────── require_all (z3solver.py; LogicSolver has none)
\* The predicates given to require_all: lambda v: v >= 1 and lambda v: v < 1.
PredPool == { ">=", "<" }

Pred(p, v) == Cmp(p, VarExpr(v), Lit(1))

\* The lists of Var objects given to require_all.
RequireAllVs == { <<2>>, <<1, 2>> }

\* for v in vs: self.require(pred(v)), from the i-th v on: the lists it
\* leaves, and whether a require raised.
RECURSIVE RequireAllFrom(_, _, _, _, _)
RequireAllFrom(reg, hd, p, vs, i) ==
  IF i > Len(vs) THEN [vars |-> reg, hard |-> hd, raised |-> FALSE]
  ELSE LET bexp == Pred(p, vs[i])
           r == RegisterFrom(reg, collect_vars(bexp), 1)
       IN  IF r.raised THEN [vars |-> r.vars, hard |-> hd, raised |-> TRUE]
           ELSE RequireAllFrom(r.vars, Append(hd, [name |-> NameOr("", bexp.name), bexp |-> bexp]),
                               p, vs, i + 1)

\* S.require_all(pred, vs): Z3Solver.require_all, or the AttributeError of
\* a LogicSolver, which has no such attribute.
require_all(p, vs) ==
  /\ pc = "idle"
  /\ Installed + Len(vs) <= install_budget
  /\ IF backend = "LogicSolver"
     THEN /\ ret' = Returned("AttributeError", <<>>)
          /\ UNCHANGED <<vars, hard>>
     ELSE LET r == RequireAllFrom(vars, hard, p, vs, 1)
          IN  /\ vars' = r.vars
              /\ hard' = r.hard
              /\ ret' = Raised(r)
  /\ InstallFrame
  /\ UNCHANGED <<soft, objectives>>

\* Sessions that call require_all as well.
InitRequireAll ==
  /\ InitSolver
  /\ domain = <<Dom(<<0, 1>>), Dom(<<0, 1>>), Dom(<<1>>)>>
  /\ install_budget = MaxInstalls
  /\ calls_left = 1
  /\ probe = NoProbe
  /\ tagset = NoTagSet

NextRequireAll ==
  \/ Next
  \/ \E p \in PredPool, vs \in RequireAllVs : require_all(p, vs)

SpecRequireAll == InitRequireAll /\ [][NextRequireAll]_vars_all

\* ───────────────────────────── tag sets (tagset.py)
\* _at_most_k(xs, k)
at_most_k(xs, k) ==
  LET xs_b == to_bools(xs)
  IN  at_least_k(inverted(xs_b), Len(xs_b) - k)

\* The tag variables of the TagSets: BoolVars named x, y, z.
TagPool == { <<>>, <<1>>, <<1, 2>>, <<1, 2, 4>> }

\* TagSet.enforce_at_most(k) for the session's k.
enforce_at_most ==
  require(at_most_k([i \in 1..Len(tagset.vars) |-> VarExpr(tagset.vars[i])], tagset.k), "")

\* A TagSet built on a fresh LogicSolver.
InitTag ==
  /\ InitSolver
  /\ backend = "LogicSolver"
  /\ domain = <<Dom(<<0, 1>>), Dom(<<0, 1>>), Dom(<<0, 1>>), Dom(<<0, 1>>)>>
  /\ install_budget = 1
  /\ calls_left = 1
  /\ probe = NoProbe
  /\ tagset \in [vars : TagPool, k : KPool]

NextTag ==
  \/ enforce_at_most
  \/ \E c \in AllArgs : all_solutions(c[1], c[2])
  \/ BtTimeout
  \/ BtEnter
  \/ BtLoop
  \/ BtReturn
  \/ all_solutions_return

SpecTag == InitTag /\ [][NextTag]_vars_all

\* ───────────────────────────── the search as functions of the configuration
RECURSIVE Flatten(_)
Flatten(ss) == IF ss = <<>> THEN <<>> ELSE Head(ss) \o Flatten(Tail(ss))

Take(s, n) == SubSeq(s, 1, IF n < Len(s) THEN n ELSE Len(s))

IsPrefix(p, s) == Len(p) <= Len(s) /\ p = SubSeq(s, 1, Len(p))

\* _bt without limit and timeout, from the node at depth i (idx = i - 1)
\* holding assignment a: the leaves it handles, in the order it handles them.
RECURSIVE BtLeaves(_, _)
BtLeaves(a, i) ==
  IF i - 1 = Len(vars) THEN <<a>>
  ELSE LET v == vars[i]
           dom == domain[v].vals
       IN  Flatten([j \in 1..Len(dom) |->
             LET a2 == Put(a, NameOf(v), dom[j])
             IN  IF consistent(a2).ok THEN BtLeaves(a2, i + 1) ELSE <<>>])

\* all_solutions() of a solver with the current configuration.
AllSolutionsList ==
  LET L == BtLeaves(EmptyDict, 1)
  IN  [i \in 1..Len(L) |-> Entry(L[i], score(L[i]))]

\* The best (score, assignment) pair after the leaves L[1..n], as solve keeps it.
RECURSIVE BestOf(_, _)
BestOf(L, n) ==
  IF n = 0 THEN [score |-> <<>>, assignment |-> <<>>]
  ELSE LET b == BestOf(L, n - 1)
           sc == score(L[n])
       IN  IF better(sc, b.score)
           THEN [score |-> <<[penalty |-> sc.penalty, score |-> sc.score]>>,
                 assignment |-> <<L[n]>>]
           ELSE b

\* solve() of a freshly built solver with the current configuration.
FreshSolve ==
  LET L == BtLeaves(EmptyDict, 1)
      b == BestOf(L, Len(L))
  IN  IF \E i \in 1..Len(L) : ~score(L[i]).ok THEN Returned("KeyError", <<>>)
      ELSE IF b.assignment = <<>> THEN Returned("RuntimeError", <<>>)
      ELSE Returned("solution", <<Entry(b.assignment[1], b.score[1])>>)

\* ───────────────────────────── what the problem itself says
\* The values of a domain, each once, in order of first occurrence.
RECURSIVE Dedup(_)
Dedup(s) ==
  IF s = <<>> THEN <<>>
  ELSE LET r == Dedup(SubSeq(s, 1, Len(s) - 1))
           x == s[Len(s)]
       IN  IF \E i \in 1..Len(r) : r[i] = x THEN r ELSE Append(r, x)

\* The complete assignments extending a over the registered variables from
\* the i-th on, in depth-first order.
RECURSIVE CompleteFrom(_, _)
CompleteFrom(a, i) ==
  IF i > Len(vars) THEN <<a>>
  ELSE LET d == Dedup(domain[vars[i]].vals)
       IN  Flatten([j \in 1..Len(d) |-> CompleteFrom(Put(a, NameOf(vars[i]), d[j]), i + 1)])

\* a satisfies every hard constraint.
Feasible(a) == \A i \in 1..Len(hard) : satisfied(hard[i].bexp, a) = "True"

FeasibleList == SelectSeq(CompleteFrom(EmptyDict, 1), Feasible)

\* The sum of the penalties of the soft constraints a violates.
PenaltyOf(a) ==
  SumSeq([i \in 1..Len(soft) |-> IF satisfied(soft[i].bexp, a) = "True" THEN 0 ELSE soft[i].penalty])

\* A LogicSolver search call has come back to its caller.
Done(c) == backend = "LogicSolver" /\ pc = "idle" /\ call = c

\* ───────────────────────────── properties
\* C1: the assignment solve returns has the least total penalty of all
\* feasible complete assignments, in both objective modes; objectives and
\* weights only choose among assignments of that least penalty.
C1_MinimalPenalty ==
  (Done("solve") /\ ret.kind = "solution") =>
    /\ ret.value[1].penalty = PenaltyOf(ret.value[1].assignment)
    /\ \A i \in 1..Len(FeasibleList) :
         PenaltyOf(ret.value[1].assignment) <= PenaltyOf(FeasibleList[i])

\* A solve returned where a feasible assignment of greater penalty has the
\* greater weighted score.
C1_Witness ==
  /\ Done("solve")
  /\ ret.kind = "solution"
  /\ objective_mode = "sum"
  /\ \E i \in 1..Len(FeasibleList) :
       /\ PenaltyOf(FeasibleList[i]) > ret.value[1].penalty
       /\ score(FeasibleList[i]).score > ret.value[1].objective

\* C2: every assignment solve returns and every entry all_solutions returns
\* satisfies every installed hard constraint, whatever is registered.
C2_HardSatisfied ==
  /\ (Done("solve") /\ ret.kind = "solution") => Feasible(ret.value[1].assignment)
  /\ (Done("all") /\ ret.kind = "solutions") =>
       \A i \in 1..Len(ret.value) : Feasible(ret.value[i].assignment)

\* C3: all_solutions without limit and timeout returns the feasible complete
\* assignments over the registered domains, each once, in depth-first order.
C3_Exhaustive ==
  (Done("all") /\ limit = <<>> /\ timeout = <<>> /\ ret.kind = "solutions") =>
    [i \in 1..Len(ret.value) |-> ret.value[i].assignment] = FeasibleList

\* C4: all_solutions(limit=k) without timeout returns the first min(k, N)
\* entries of the list all_solutions() returns (N its length), and once k
\* entries are collected the search handles no further leaf and enters no
\* further loop turn.
C4_LimitPrefix ==
  (call = "all" /\ timeout = <<>>) =>
    /\ (pc = "idle" /\ ret.kind = "solutions") =>
         ret.value = IF limit = <<>> THEN AllSolutionsList
                     ELSE Take(AllSolutionsList, limit[1])
    /\ limit # <<>> =>
         /\ leaves <= limit[1]
         /\ (pc # "idle" /\ Len(solutions) >= limit[1]) =>
              (pc = "return" \/ (pc = "enter" /\ stack = <<>>))

\* A limited call came back with k > 0 entries where the unlimited list is longer.
C4_Witness ==
  /\ Done("all")
  /\ limit # <<>>
  /\ timeout = <<>>
  /\ limit[1] > 0
  /\ Len(ret.value) = limit[1]
  /\ Len(AllSolutionsList) > limit[1]

\* C5: with a timeout <= 0, in both backends, solve raises the timeout error
\* and all_solutions returns the empty list, and no leaf is visited.
C5_NonPositiveTimeout ==
  (pc = "idle" /\ call \in {"solve", "all"} /\ timeout # <<>> /\ timeout[1] <= 0) =>
    /\ leaves = 0
    /\ call = "solve" => ret.kind = "TimeoutError"
    /\ call = "all" => ret = Returned("solutions", <<>>)

\* C6: the time check can fire on entry to every node; whenever it fires,
\* all_solutions returns the entries collected so far, a prefix of the
\* unlimited enumeration, and solve raises the timeout error and returns
\* nothing, a stored best included.
C6_TimeoutAtEveryNode ==
  (pc = "enter" /\ timeout # <<>>) =>
    /\ ENABLED BtTimeout
    /\ ~ENABLED (BtTimeout /\ ~(/\ pc' = "idle"
                                /\ ret' = IF call = "solve" THEN Returned("TimeoutError", <<>>)
                                          ELSE Returned("solutions", solutions)))
    /\ call = "all" => IsPrefix(solutions, AllSolutionsList)

\* A solve raised the timeout error after it had stored a best assignment.
C6_Witness ==
  /\ Done("solve")
  /\ timeout # <<>>
  /\ ret.kind = "TimeoutError"
  /\ best_assignment # <<>>

\* C7: when no complete assignment over the registered domains satisfies
\* every hard constraint, solve without timeout raises "No feasible
\* solution" and all_solutions returns the empty list.
C7_InfeasibleRaises ==
  (backend = "LogicSolver" /\ FeasibleList = <<>>) =>
    /\ (Done("solve") /\ timeout = <<>>) => ret.kind = "RuntimeError"
    /\ Done("all") => ret = Returned("solutions", <<>>)

\* The i-th hard constraint is false under the partial assignment p.
FalseUnder(i, p) == satisfied(hard[i].bexp, p) = "False"

\* The names of the hard constraints false under some visited partial assignment.
Falsified == {hard[i].name : i \in {j \in 1..Len(hard) : \E p \in visited : FalseUnder(j, p)}}

\* The names of the hard constraints that were the first, in installation
\* order, to be false under some visited partial assignment.
FirstFalsified ==
  {hard[i].name : i \in {j \in 1..Len(hard) :
      \E p \in visited : FalseUnder(j, p) /\ \A k \in 1..(j - 1) : ~FalseUnder(k, p)}}

\* C8 as stated: after a solve, why_unsat() names exactly the hard
\* constraints false under at least one visited partial assignment.
C8_AllFalsified == Done("solve") => failed = Falsified

\* C8: after a solve, why_unsat() names exactly the hard constraints that
\* were the first in installation order to be false under some visited
\* partial assignment; after "No feasible solution" over non-empty
\* registered domains that set is not empty.
C8_FirstFalsified ==
  (Done("solve") /\ backend = "LogicSolver") =>
    /\ failed = FirstFalsified
    /\ (/\ ret.kind = "RuntimeError"
        /\ \A i \in 1..Len(vars) : domain[vars[i]].vals # <<>>) => failed # {}

\* A solve raised "No feasible solution" and a constraint false under a
\* visited partial assignment is not named.
C8_Witness ==
  /\ Done("solve")
  /\ ret.kind = "RuntimeError"
  /\ failed # {}
  /\ Falsified \ failed # {}

\* C9: why_unsat() names only constraints that failed during the most
\* recent solve or all_solutions call.
C9_ResetEveryCall ==
  (pc = "idle" /\ call \in {"solve", "all"}) => failed \subseteq Falsified

\* C10: a solve that runs to its end returns what a freshly built solver
\* of the same configuration returns, and what every earlier such solve
\* since the last install returned, all_solutions calls in between or not.
C10_Repeatable ==
  (Done("solve") /\ backend = "LogicSolver" /\ ret.kind # "TimeoutError") =>
    /\ ret = FreshSolve
    /\ \A i \in 1..Len(history) :
         history[i].kind \notin {"all_solutions", "TimeoutError"} => history[i] = ret

\* solve, all_solutions, solve on one configuration with a choice to make.
C10_Witness ==
  /\ Done("solve")
  /\ Len(history) = 3
  /\ history[1].kind = "solution"
  /\ history[2] = AllSolutionsCall
  /\ history[3].kind = "solution"
  /\ Len(AllSolutionsList) >= 2
  /\ soft # <<>>

\* The feasible complete assignments of least total penalty.
MinPenaltyFeasible ==
  {FeasibleList[i] : i \in {j \in 1..Len(FeasibleList) :
      \A k \in 1..Len(FeasibleList) : PenaltyOf(FeasibleList[j]) <= PenaltyOf(FeasibleList[k])}}

\* sense_i * value_i of the objectives under a, in registration order.
ObjVector(a) ==
  [i \in 1..Len(objectives) |-> objectives[i].sense * eval(objectives[i].expr, a).v]

\* u comes before v in lexicographic order (two vectors of one length).
LexLess(u, v) ==
  \E i \in 1..Len(u) : u[i] < v[i] /\ \A j \in 1..(i - 1) : u[j] = v[j]

SumObjective(a) ==
  SumSeq([i \in 1..Len(objectives) |->
            objectives[i].weight * objectives[i].sense * eval(objectives[i].expr, a).v])
  - SumSeq([i \in 1..Len(soft) |->
            IF satisfied(soft[i].bexp, a) = "True" THEN 0
            ELSE soft[i].weight * soft[i].penalty])

C13_BackendsAgree ==
  (/\ backend = "Z3Solver"
   /\ pc = "idle"
   /\ call = "solve"
   /\ timeout = <<>>
   /\ FeasibleList # <<>>
   /\ FreshSolve.kind = "solution") =>
    /\ ret.kind = "solution"
    /\ ret.value[1].penalty = FreshSolve.value[1].penalty
    /\ (objectives # <<>> /\ objective_mode = "sum") =>
         ret.value[1].objective = FreshSolve.value[1].objective
    /\ (objectives # <<>> /\ objective_mode = "lex") =>
         ret.value[1].objectives = FreshSolve.value[1].objectives

\* C14: every step leaves the registered-variable list an extension of what
\* it was (registered variables keep their positions) and free of two
\* variables with one name.
C14_AppendOnlyUniqueNames ==
  [][/\ IsPrefix(vars, vars')
     /\ \A i, j \in 1..Len(vars') : NameOf(vars'[i]) = NameOf(vars'[j]) => i = j]_vars_all

\* Variable 3, named as variable 1, is registered, and a hard constraint
\* reading variable 1 was installed without registering it.
C14_Witness ==
  /\ \E i \in 1..Len(vars) : vars[i] = 3
  /\ \A i \in 1..Len(vars) : vars[i] # 1
  /\ \E i \in 1..Len(hard) : \E j \in 1..Len(collect_vars(hard[i].bexp)) :
       collect_vars(hard[i].bexp)[j] = 1

\* C15: an install call that raises the missing-domain error leaves the
\* registered variables, the hard and soft constraints and the objectives
\* as they were before the call.
C15_FailureLeavesState ==
  [][(pc = "idle" /\ ret'.kind = "ValueError") =>
       <<vars, hard, soft, objectives>>' = <<vars, hard, soft, objectives>>]_vars_all

\* C16: rebinding the domain of a registered variable changes neither what
\* all_solutions() nor what solve() returns on the solver.
C16_RebindNotObserved ==
  [][(\E i \in 1..Len(vars) : domain'[vars[i]] # domain[vars[i]]) =>
       (AllSolutionsList' = AllSolutionsList /\ FreshSolve' = FreshSolve)]_vars_all

\* The values of s, each once, in order of first occurrence, for the
\* collections the pool binds from.
DedupLists(spec) ==
  CASE spec.k = "list" -> {Dedup(spec.v)}
    [] spec.k = "set" -> SetLists(spec.v)
    [] spec.k = "range" -> {RangeList(spec.v[1], spec.v[2])}

\* C17: Var << values for a list, a set or a range binds the values in
\* iteration order with duplicates removed, so that no value occurs twice
\* in the domain the search iterates.
C17_BindDeduplicates ==
  [][\A v \in BindVars, spec \in LshiftPool :
       (spec.k # "tuple" /\ lshift(v, spec)) =>
         /\ domain'[v].vals \in DedupLists(spec)
         /\ \A i, j \in 1..Len(domain'[v].vals) :
              domain'[v].vals[i] = domain'[v].vals[j] => i = j]_vars_all

\* lo, lo + step, ... up to the last value <= hi.
Stepped(lo, hi, step) ==
  IF hi < lo THEN <<>> ELSE [i \in 1..((hi - lo) \div step + 1) |-> lo + (i - 1) * step]

\* C18: in_range(lo, hi, step) binds lo, lo+step, ... up to the last value
\* <= hi, and in_range(lo, hi) binds lo..hi.
C18_InRangeStep ==
  [][\A v \in BindVars, args \in InRangePool :
       in_range(v, args) =>
         /\ ret'.kind = "none"
         /\ domain'[v] = Dom(Stepped(args[1], args[2], IF Len(args) = 3 THEN args[3] ELSE 1))]_vars_all

\* The number of elements of xs that are true under a.
TrueCount(xs, a) ==
  Cardinality({i \in 1..Len(xs) : satisfied(to_bool(xs[i]), a) = "True"})

\* The probe built by fn from a list of booleans has been evaluated.
Probed(fn) ==
  /\ probe.fn = fn
  /\ probe.out # "none"
  /\ \A i \in 1..Len(probe.xs) : IsBool(probe.xs[i])

\* C19: exactly_k(xs, k) is satisfied iff exactly k elements of xs are
\* true: for 0 <= k <= n as at_least_k(xs, k) and at_least_k(not xs, n - k),
\* for k = 0 iff all are false, for k = n iff all are true, and never for
\* k < 0 or k > n.
C19_ExactlyK ==
  Probed("exactly_k") =>
    LET xs == probe.xs
        n == Len(xs)
        k == probe.k
        a == probe.a
        cnt == TrueCount(xs, a)
    IN  /\ probe.out = PyBool(cnt = k)
        /\ (0 <= k /\ k <= n) =>
             probe.out = satisfied(And(at_least_k(xs, k), at_least_k(inverted(to_bools(xs)), n - k)), a)
        /\ k = 0 => probe.out = PyBool(cnt = 0)
        /\ k = n => probe.out = PyBool(cnt = n)
        /\ (k < 0 \/ k > n) => probe.out = "False"

\* exactly_k held of three elements, two of them true.
C19_Witness ==
  /\ Probed("exactly_k")
  /\ Len(probe.xs) = 3
  /\ probe.k = 2
  /\ TrueCount(probe.xs, probe.a) = 2
  /\ probe.out = "True"

\* C20: at_least_k(xs, k) is satisfied iff at least k elements of xs are
\* true; always for k <= 0, never for k > n.
C20_AtLeastK ==
  Probed("at_least_k") =>
    LET n == Len(probe.xs)
        k == probe.k
        cnt == TrueCount(probe.xs, probe.a)
    IN  /\ probe.out = PyBool(cnt >= k)
        /\ k <= 0 => probe.out = "True"
        /\ k > n => probe.out = "False"

\* at_least_k failed of three elements for k = 2, one of them true.
C20_Witness ==
  /\ Probed("at_least_k")
  /\ Len(probe.xs) = 3
  /\ probe.k = 2
  /\ TrueCount(probe.xs, probe.a) = 1
  /\ probe.out = "False"

\* C21: over a list of booleans at_least_one holds iff at least one is
\* true, at_most_one iff at most one, exactly_one iff exactly one; of the
\* empty list at_least_one is false and at_most_one true, sum_of is 0 and
\* product_of is 1.
C21_OneOfAndEmptyFolds ==
  LET cnt == TrueCount(probe.xs, probe.a)
  IN  /\ Probed("at_least_one") =>
           /\ probe.out = PyBool(cnt >= 1)
           /\ probe.xs = <<>> => probe.out = "False"
      /\ Probed("at_most_one") =>
           /\ probe.out = PyBool(cnt <= 1)
           /\ probe.xs = <<>> => probe.out = "True"
      /\ Probed("exactly_one") => probe.out = PyBool(cnt = 1)
      /\ (probe.fn = "sum_of" /\ probe.out # "none" /\ probe.xs = <<>>) =>
           (probe.out = "Value" /\ probe.val = 0)
      /\ (probe.fn = "product_of" /\ probe.out # "none" /\ probe.xs = <<>>) =>
           (probe.out = "Value" /\ probe.val = 1)

\* at_most_one failed of three elements, the first and the last true only.
C21_Witness ==
  /\ Probed("at_most_one")
  /\ Len(probe.xs) = 3
  /\ satisfied(to_bool(probe.xs[1]), probe.a) = "True"
  /\ satisfied(to_bool(probe.xs[2]), probe.a) = "False"
  /\ satisfied(to_bool(probe.xs[3]), probe.a) = "True"
  /\ probe.out = "False"

\* C22: under an assignment binding all of vs, distinct(vs) holds iff the
\* values at any two positions of vs are unequal; it holds of zero and of
\* one variable.
C22_Distinct ==
  (probe.fn = "distinct" /\ probe.out # "none") =>
    LET vs == Objects(probe.xs)
    IN  /\ probe.out = PyBool(\A i, j \in 1..Len(vs) :
                                i # j => probe.a[NameOf(vs[i])] # probe.a[NameOf(vs[j])])
        /\ Len(vs) <= 1 => probe.out = "True"

\* distinct failed of x, y, z in this order, with x = z and y another value.
C22_Witness ==
  /\ probe.fn = "distinct"
  /\ Objects(probe.xs) = <<1, 2, 4>>
  /\ probe.a["x"] = probe.a["z"]
  /\ probe.a["x"] # probe.a["y"]
  /\ probe.out = "False"

\* distinct held of three variables.
C22_WitnessHolds ==
  /\ probe.fn = "distinct"
  /\ Objects(probe.xs) = <<1, 2, 4>>
  /\ probe.out = "True"

\* The names of the variables in the free set of an expression node.
FreeNames(e) == {NameOf(v) : v \in e.vars}

\* C23: each installed constraint and objective carries a free set equal to
\* the set of variables its evaluation reads; every such variable is
\* registered, and bound in the assignment solve returns.
C23_FreeSetIsReadSet ==
  /\ \A i \in 1..Len(hard) :
       /\ FreeNames(hard[i].bexp) = BoolReads(hard[i].bexp)
       /\ BoolReads(hard[i].bexp) \subseteq Names(vars)
       /\ (Done("solve") /\ ret.kind = "solution") =>
            BoolReads(hard[i].bexp) \subseteq DOMAIN ret.value[1].assignment
  /\ \A i \in 1..Len(soft) :
       /\ FreeNames(soft[i].bexp) = BoolReads(soft[i].bexp)
       /\ BoolReads(soft[i].bexp) \subseteq Names(vars)
       /\ (Done("solve") /\ ret.kind = "solution") =>
            BoolReads(soft[i].bexp) \subseteq DOMAIN ret.value[1].assignment
  /\ \A i \in 1..Len(objectives) :
       /\ FreeNames(objectives[i].expr) = Reads(objectives[i].expr)
       /\ Reads(objectives[i].expr) \subseteq Names(vars)

\* C24: all_solutions keeps the assignments that violate soft constraints:
\* run to its end without limit it returns every feasible complete
\* assignment, and each entry it returns carries the penalty and the
\* objective value(s) of its own assignment.
C24_SoftNeverExcludes ==
  (Done("all") /\ ret.kind = "solutions") =>
    /\ (limit = <<>> /\ timeout = <<>>) =>
         \A i \in 1..Len(FeasibleList) :
           \E j \in 1..Len(ret.value) : ret.value[j].assignment = FeasibleList[i]
    /\ \A j \in 1..Len(ret.value) :
         /\ ret.value[j].penalty = PenaltyOf(ret.value[j].assignment)
         /\ objective_mode = "lex" =>
              ret.value[j].objectives = ObjVector(ret.value[j].assignment)
         /\ objective_mode = "sum" =>
              ret.value[j].objective = SumObjective(ret.value[j].assignment)

\* An unlimited all_solutions returned entries of two different penalties,
\* one of them positive, with an objective installed.
C24_Witness ==
  /\ Done("all")
  /\ ret.kind = "solutions"
  /\ limit = <<>>
  /\ timeout = <<>>
  /\ objectives # <<>>
  /\ \E i, j \in 1..Len(ret.value) :
       ret.value[i].penalty > 0 /\ ret.value[j].penalty # ret.value[i].penalty

\* The 0/1 assignments of the tag variables with at most k of them 1.
AtMostAssignments ==
  LET N == {NameOf(tagset.vars[i]) : i \in 1..Len(tagset.vars)}
  IN  {a \in [N -> {0, 1}] : Cardinality({n \in N : a[n] = 1}) <= tagset.k}

\* C25: after enforce_at_most(k) on a fresh solver, all_solutions() returns
\* the 0/1 assignments of the tag variables with at most k tags 1, each once.
C25_TagSetAtMost ==
  (Done("all") /\ ret.kind = "solutions" /\ limit = <<>> /\ timeout = <<>> /\ Len(hard) = 1) =>
    /\ {ret.value[j].assignment : j \in 1..Len(ret.value)} = AtMostAssignments
    /\ \A i, j \in 1..Len(ret.value) :
         ret.value[i].assignment = ret.value[j].assignment => i = j

\* C26: on either backend require_all(pred, vs) installs pred(v) as a hard
\* constraint for each v of vs, in order.
C26_RequireAllOnBoth ==
  [][\A p \in PredPool, vs \in RequireAllVs :
       require_all(p, vs) =>
         /\ ret'.kind = "none"
         /\ hard' = hard \o [i \in 1..Len(vs) |-> [name |-> "<anon>", bexp |-> Pred(p, vs[i])]]]_vars_all

\* The complete assignments over the registered variables that extend p.
Completions(p) ==
  {c \in [Names(vars) -> UNION {DomainValues(vars[i]) : i \in 1..Len(vars)}] :
     /\ \A i \in 1..Len(vars) : c[NameOf(vars[i])] \in DomainValues(vars[i])
     /\ \A n \in DOMAIN p : c[n] = p[n]}

\* Every rejection so far had a hard constraint false under the partial
\* assignment and under each of its completions, and a constraint reading
\* an unbound variable rejected nothing.
PruningSound ==
  \A p \in visited :
    /\ ~consistent(p).ok =>
         \E i \in 1..Len(hard) :
           /\ satisfied(hard[i].bexp, p) = "False"
           /\ \A c \in Completions(p) : satisfied(hard[i].bexp, c) = "False"
    /\ (\A i \in 1..Len(hard) : satisfied(hard[i].bexp, p) # "False") => consistent(p).ok

\* C27: pruning is sound, a constraint reading an unbound variable never
\* rejects, and no KeyError reaches the caller of solve or all_solutions.
C27_PruningSound ==
  /\ backend = "LogicSolver" => PruningSound
  /\ (Done("solve") \/ Done("all")) => ret.kind # "KeyError"

\* The working assignment binds exactly the first n registered variables,
\* each to the value of its domain its loop has reached.
BindsFirst(n) ==
  /\ DOMAIN assignment = {NameOf(vars[i]) : i \in 1..n}
  /\ \A i \in 1..n :
       /\ stack[i] \in 1..Len(domain[vars[i]].vals)
       /\ assignment[NameOf(vars[i])] = domain[vars[i]].vals[stack[i]]

\* The shape of the search state at a node's entry and at its return, and
\* of what the search has stored.
SearchShape ==
  /\ pc = "enter" => (idx <= Len(vars) /\ BindsFirst(idx))
  /\ pc = "return" => (idx <= Len(vars) /\ BindsFirst(idx))
  /\ (pc # "idle" /\ best_assignment # <<>> /\ call = "solve") =>
       DOMAIN best_assignment[1] = Names(vars)
  /\ \A j \in 1..Len(solutions) : DOMAIN solutions[j].assignment = Names(vars)

\* C28: on entry to the node at depth idx the working assignment binds
\* exactly the first idx registered variables to values of their domains;
\* when a node returns, its variable is unbound again; the stored best and
\* the enumerated entries bind all registered variables, and a step of the
\* search changes no entry already stored and changes the stored best only
\* to the working assignment of a leaf.
C28_SearchShape ==
  [][/\ SearchShape
     /\ SearchShape'
     /\ (pc # "idle" /\ pc' # "idle") =>
          /\ IsPrefix(solutions, solutions')
          /\ best_assignment' # best_assignment =>
               (pc = "enter" /\ idx = Len(vars) /\ best_assignment' = <<assignment>>)]_vars_all

\* A node at depth 1 of 2 came back into the loop of the root with an
\* entry stored, the root's variable bound and the node's unbound.
C28_Witness ==
  /\ pc = "return"
  /\ Len(vars) = 2
  /\ idx = 1
  /\ DOMAIN assignment = {NameOf(vars[1])}
  /\ solutions # <<>>

\* Entry e is strictly better than entry f: the lower penalty, or the same
\* penalty and the greater objective (sum) or objective vector (lex).
EntryBeats(e, f) ==
  \/ e.penalty < f.penalty
  \/ /\ e.penalty = f.penalty
     /\ IF objective_mode = "sum" THEN e.objective > f.objective
        ELSE LexLess(f.objectives, e.objectives)

\* The position in all_solutions() of its first entry no entry beats.
FirstOptimal ==
  LET L == AllSolutionsList
      O == {i \in 1..Len(L) : \A j \in 1..Len(L) : ~EntryBeats(L[j], L[i])}
  IN  CHOOSE i \in O : \A j \in O : i <= j

\* C29: solve returns the first entry, in the order of all_solutions()
\* without limit, whose (penalty, score) no other entry beats; a later
\* entry of equal score does not replace it.
C29_FirstOptimal ==
  (Done("solve") /\ ret.kind = "solution") => ret.value[1] = AllSolutionsList[FirstOptimal]

\* solve returned on a problem where a later entry with another assignment
\* ties with the first optimal one.
C29_Witness ==
  /\ Done("solve")
  /\ ret.kind = "solution"
  /\ objectives # <<>>
  /\ \E j \in 1..Len(AllSolutionsList) :
       /\ j > FirstOptimal
       /\ AllSolutionsList[j].assignment # AllSolutionsList[FirstOptimal].assignment
       /\ ~EntryBeats(AllSolutionsList[FirstOptimal], AllSolutionsList[j])

=============================================================================
